---- MODULE Spec2Model ----
(***************************************************************************)
(* A model of the pxshot client library (src/src/types.rs,                 *)
(* src/src/client.rs, src/src/error.rs).                                   *)
(*                                                                         *)
(* Three specifications share the variables:                               *)
(*   SpecBuilder     one ScreenshotRequestBuilder: chained setters, build() *)
(*   Spec            one Pxshot client: construction, screenshot(), usage() *)
(*   SpecConcurrent  one constructed client, several calls in flight       *)
(***************************************************************************)
EXTENDS Integers, Sequences, FiniteSets, TLC

VARIABLES
    builder,    \* the ScreenshotRequestBuilder being staged (types.rs:94-107)
    called,     \* history: names of the setters called on the builder so far
    ncalls,     \* history: number of setter calls made so far
    history,    \* history: the setter calls made, in order, as <<name, value>>
    built,      \* None before build(); Some(Result<ScreenshotRequest>) after
    client,     \* None before construction; Some(Pxshot {base_url, authorization})
    panic,      \* None, or Some(message) once the process has panicked
    pc,         \* position of the call in flight: idle, sending, responded, done
    op,         \* the operation in flight: none, screenshot, usage
    request,    \* None, or Some(request) passed to screenshot()
    storeFlag,  \* the local `store` of screenshot() (client.rs:125)
    wire,       \* the HTTP requests this call has handed to the transport
    response,   \* None, or Some(response) the transport delivered
    result,     \* None, or Some(Result) the call returned
    calls       \* the calls in flight at once on one client, each with its own locals

builderVars == <<builder, called, ncalls, history, built>>
clientVars == <<client, panic>>
callVars == <<pc, op, request, storeFlag, wire, response, result>>
concVars == <<calls>>
vars == <<builder, called, ncalls, history, built, client, panic,
          pc, op, request, storeFlag, wire, response, result, calls>>

(***************************************************************************)
(* Option and Result                                                       *)
(***************************************************************************)
None == <<>>
Some(v) == <<v>>
IsSome(o) == Len(o) = 1
IsNone(o) == Len(o) = 0
Unwrap(o) == o[1]
UnwrapOr(o, d) == IF IsSome(o) THEN o[1] ELSE d

Ok(v) == [ok |-> TRUE, val |-> v]
Err(e) == [ok |-> FALSE, err |-> e]

(***************************************************************************)
(* error.rs: the Error enum                                                *)
(***************************************************************************)
MissingField(name) == [kind |-> "MissingField", field |-> name]
RequestError(cause) == [kind |-> "Request", cause |-> cause]
ApiFailure(status, message) == [kind |-> "Api", status |-> status, message |-> message]
ParseError(description) == [kind |-> "Parse", description |-> description]
ConfigError(description) == [kind |-> "Config", description |-> description]

ErrorKinds == {"MissingField", "Request", "Api", "Parse", "Config"}

(***************************************************************************)
(* types.rs: enums and the values the setters are given                    *)
(***************************************************************************)
ImageFormat == {"Png", "Jpeg", "Webp"}
WaitUntil == {"Load", "DomContentLoaded", "NetworkIdle"}

\* Bounds on the inputs: the number of chained setter calls, and the number
\* of distinct values tried for the numeric and string fields.
MaxSetterCalls == 3
MaxValues == 1

\* url() takes any string, the empty one included.
UrlValues == {"", "https://example.com", "https://example.org"}
QualityValues == {80 + 10 * i : i \in 0..MaxValues}
PixelValues == {1080 + 840 * i : i \in 0..(MaxValues - 1)}
SelectorValues == {"#main"}
TimeoutValues == {500 * i : i \in 0..(MaxValues - 1)}
ScaleValues == {1 + i : i \in 0..(MaxValues - 1)}

OptionalFields ==
    {"format", "quality", "width", "height", "full_page", "wait_until",
     "wait_for_selector", "wait_for_timeout", "device_scale_factor", "store",
     "block_ads"}
AllFields == {"url"} \cup OptionalFields

\* ScreenshotRequestBuilder::default(): every field None.
DefaultBuilder ==
    [url |-> None, format |-> None, quality |-> None, width |-> None,
     height |-> None, full_page |-> None, wait_until |-> None,
     wait_for_selector |-> None, wait_for_timeout |-> None,
     device_scale_factor |-> None, store |-> None, block_ads |-> None]

\* Faulty variant of width(): the value is stored in height.
width_sets_height(b, v) == [b EXCEPT !.height = Some(v)]

\* The setters: each stores Some(value) in its own field and returns the builder.
url(b, v) == [b EXCEPT !.url = Some(v)]
format(b, v) == [b EXCEPT !.format = Some(v)]
quality(b, v) == [b EXCEPT !.quality = Some(v)]
width(b, v) == [b EXCEPT !.width = Some(v)]
height(b, v) == [b EXCEPT !.height = Some(v)]
full_page(b, v) == [b EXCEPT !.full_page = Some(v)]
wait_until(b, v) == [b EXCEPT !.wait_until = Some(v)]
wait_for_selector(b, v) == [b EXCEPT !.wait_for_selector = Some(v)]
wait_for_timeout(b, v) == [b EXCEPT !.wait_for_timeout = Some(v)]
device_scale_factor(b, v) == [b EXCEPT !.device_scale_factor = Some(v)]
store(b, v) == [b EXCEPT !.store = Some(v)]
block_ads(b, v) == [b EXCEPT !.block_ads = Some(v)]

\* Faulty variant of build(): a missing url is replaced by an empty one instead of
\* being reported.
build_default_url(b) ==
    Ok([url |-> UnwrapOr(b.url, ""),
        format |-> b.format,
        quality |-> b.quality,
        width |-> b.width,
        height |-> b.height,
        full_page |-> b.full_page,
        wait_until |-> b.wait_until,
        wait_for_selector |-> b.wait_for_selector,
        wait_for_timeout |-> b.wait_for_timeout,
        device_scale_factor |-> b.device_scale_factor,
        store |-> b.store,
        block_ads |-> b.block_ads])

\* build(): self.url.ok_or(MissingField("url"))?, then every field copied.
build(b) ==
    IF IsNone(b.url)
    THEN Err(MissingField("url"))
    ELSE Ok([url |-> Unwrap(b.url),
             format |-> b.format,
             quality |-> b.quality,
             width |-> b.width,
             height |-> b.height,
             full_page |-> b.full_page,
             wait_until |-> b.wait_until,
             wait_for_selector |-> b.wait_for_selector,
             wait_for_timeout |-> b.wait_for_timeout,
             device_scale_factor |-> b.device_scale_factor,
             store |-> b.store,
             block_ads |-> b.block_ads])

(***************************************************************************)
(* Serialization of a ScreenshotRequest (derive(Serialize), types.rs:35-83) *)
(* A JSON value is [t, s, n, b]: its type and its string, number or        *)
(* boolean content; a JSON object is a set of members [k, t, s, n, b].     *)
(***************************************************************************)
JStr(s) == [t |-> "str", s |-> s, n |-> 0, b |-> FALSE]
JNum(n) == [t |-> "num", s |-> "", n |-> n, b |-> FALSE]
JBool(b) == [t |-> "bool", s |-> "", n |-> 0, b |-> b]
JNull == [t |-> "null", s |-> "", n |-> 0, b |-> FALSE]
Member(k, v) == [k |-> k, t |-> v.t, s |-> v.s, n |-> v.n, b |-> v.b]

\* #[serde(rename_all = "lowercase")] on ImageFormat
ImageFormatName(f) ==
    CASE f = "Png" -> "png"
      [] f = "Jpeg" -> "jpeg"
      [] f = "Webp" -> "webp"

\* #[serde(rename_all = "snake_case")] on WaitUntil
WaitUntilName(w) ==
    CASE w = "Load" -> "load"
      [] w = "DomContentLoaded" -> "dom_content_loaded"
      [] w = "NetworkIdle" -> "network_idle"

\* The JSON value of field f of request r when the field holds a value.
FieldValue(r, f) ==
    CASE f = "url" -> JStr(r.url)
      [] f = "format" -> JStr(ImageFormatName(Unwrap(r.format)))
      [] f = "quality" -> JNum(Unwrap(r.quality))
      [] f = "width" -> JNum(Unwrap(r.width))
      [] f = "height" -> JNum(Unwrap(r.height))
      [] f = "full_page" -> JBool(Unwrap(r.full_page))
      [] f = "wait_until" -> JStr(WaitUntilName(Unwrap(r.wait_until)))
      [] f = "wait_for_selector" -> JStr(Unwrap(r.wait_for_selector))
      [] f = "wait_for_timeout" -> JNum(Unwrap(r.wait_for_timeout))
      [] f = "device_scale_factor" -> JNum(Unwrap(r.device_scale_factor))
      [] f = "store" -> JBool(Unwrap(r.store))
      [] f = "block_ads" -> JBool(Unwrap(r.block_ads))

\* Faulty variant of the skip rule: a boolean field set to false is skipped as well.
SkipSerializing_falsy(r, f) ==
    /\ f # "url"
    /\ \/ IsNone(r[f])
       \/ f \in {"full_page", "store", "block_ads"} /\ r[f] = Some(FALSE)

\* #[serde(skip_serializing_if = "Option::is_none")]: whether field f is skipped.
SkipSerializing(r, f) == f # "url" /\ IsNone(r[f])

\* The payload: url always, every optional field that is not skipped.
Serialize(r) ==
    {Member(f, FieldValue(r, f)) : f \in {g \in AllFields : ~SkipSerializing(r, g)}}

Keys(obj) == {m.k : m \in obj}

(***************************************************************************)
(* types.rs: ScreenshotResponse and its accessors                          *)
(***************************************************************************)
Bytes(data) == [variant |-> "Bytes", data |-> data]
Stored(info) == [variant |-> "Stored", data |-> info]

\* Faulty variant of stored(): the payload is returned whatever the variant.
stored_any_variant(r) == Some(r.data)

\* bytes(&self) / into_bytes(self): Some(bytes) for Bytes, None for Stored.
bytes(r) == IF r.variant = "Bytes" THEN Some(r.data) ELSE None
into_bytes(r) == IF r.variant = "Bytes" THEN Some(r.data) ELSE None
\* stored(&self) / into_stored(self): None for Bytes, Some(info) for Stored.
stored(r) == IF r.variant = "Bytes" THEN None ELSE Some(r.data)
into_stored(r) == IF r.variant = "Bytes" THEN None ELSE Some(r.data)

(***************************************************************************)
(* Response bodies and their decoding (derive(Deserialize) of               *)
(* StoredScreenshot, Usage and ApiError).                                  *)
(* A body is [syntax, members, raw]: syntax is "object" for a JSON object  *)
(* (its members given), "scalar" for any other well-formed JSON text, and  *)
(* "malformed" for bytes that are no JSON text (raw gives the bytes).      *)
(***************************************************************************)
ObjectBody(members) == [syntax |-> "object", members |-> members, raw |-> <<>>]
ScalarBody == [syntax |-> "scalar", members |-> {}, raw |-> <<34, 120, 34>>]
RawBody(raw) == [syntax |-> "malformed", members |-> {}, raw |-> raw]

Has(obj, k) == \E m \in obj : m.k = k
Get(obj, k) == CHOOSE m \in obj : m.k = k

\* chrono's DateTime<Utc> deserializer: an RFC 3339 string, as seconds since
\* the epoch; None for any other string.
ParseDateTime(s) ==
    CASE s = "2026-01-01T00:00:00Z" -> Some(1767225600)
      [] s = "2026-01-01T01:00:00+01:00" -> Some(1767225600)
      [] s = "2026-02-01T00:00:00Z" -> Some(1769904000)
      [] OTHER -> None

IsString(obj, k) == Has(obj, k) /\ Get(obj, k).t = "str"
\* u32 / u64: a JSON number that is not negative (the values used here stay
\* below the upper limits of both types).
IsUnsigned(obj, k) == Has(obj, k) /\ Get(obj, k).t = "num" /\ Get(obj, k).n >= 0
IsDateTime(obj, k) == IsString(obj, k) /\ IsSome(ParseDateTime(Get(obj, k).s))

\* serde_json::from_slice::<ApiError>: an object with a string member `error`;
\* other members are ignored.
DecodeApiError(body) ==
    IF body.syntax = "object" /\ IsString(body.members, "error")
    THEN Ok([error |-> Get(body.members, "error").s])
    ELSE Err("decode")

\* serde_json::from_slice::<StoredScreenshot>: all five members, well typed.
DecodeStoredScreenshot(body) ==
    IF /\ body.syntax = "object"
       /\ IsString(body.members, "url")
       /\ IsDateTime(body.members, "expires_at")
       /\ IsUnsigned(body.members, "width")
       /\ IsUnsigned(body.members, "height")
       /\ IsUnsigned(body.members, "size_bytes")
    THEN Ok([url |-> Get(body.members, "url").s,
             expires_at |-> Unwrap(ParseDateTime(Get(body.members, "expires_at").s)),
             width |-> Get(body.members, "width").n,
             height |-> Get(body.members, "height").n,
             size_bytes |-> Get(body.members, "size_bytes").n])
    ELSE Err("decode")

\* serde_json::from_slice::<Usage>: all four members, well typed.
DecodeUsage(body) ==
    IF /\ body.syntax = "object"
       /\ IsUnsigned(body.members, "screenshots")
       /\ IsUnsigned(body.members, "bytes")
       /\ IsDateTime(body.members, "period_start")
       /\ IsDateTime(body.members, "period_end")
    THEN Ok([screenshots |-> Get(body.members, "screenshots").n,
             bytes |-> Get(body.members, "bytes").n,
             period_start |-> Unwrap(ParseDateTime(Get(body.members, "period_start").s)),
             period_end |-> Unwrap(ParseDateTime(Get(body.members, "period_end").s))])
    ELSE Err("decode")

(***************************************************************************)
(* The transport: what a response is, and reading its body                 *)
(* A response is [status, body, readOk]: readOk is FALSE when the          *)
(* connection fails while the body is being read.                          *)
(***************************************************************************)
\* StatusCode::is_success
is_success(status) == 200 <= status /\ status <= 299

\* StatusCode::canonical_reason, for the statuses used here.
canonical_reason(status) ==
    CASE status = 200 -> Some("OK")
      [] status = 204 -> Some("No Content")
      [] status = 304 -> Some("Not Modified")
      [] status = 404 -> Some("Not Found")
      [] status = 429 -> Some("Too Many Requests")
      [] status = 500 -> Some("Internal Server Error")
      [] OTHER -> None

\* Response::bytes(): the whole body, or the transport's body error.
ReadBytes(resp) == IF resp.readOk THEN Ok(resp.body) ELSE Err("body")

\* Response::json::<T>(): bytes()?, then serde_json::from_slice, for each T
\* the client asks for.
ReadJsonApiError(resp) ==
    IF ~resp.readOk THEN Err("body") ELSE DecodeApiError(resp.body)
ReadJsonStoredScreenshot(resp) ==
    IF ~resp.readOk THEN Err("body") ELSE DecodeStoredScreenshot(resp.body)
ReadJsonUsage(resp) ==
    IF ~resp.readOk THEN Err("body") ELSE DecodeUsage(resp.body)

(***************************************************************************)
(* client.rs: construction                                                 *)
(* Strings the code inspects character by character are sequences: an API  *)
(* key is a sequence of byte values, a base URL a sequence of characters.  *)
(***************************************************************************)
DEFAULT_BASE_URL == <<"https://api.pxshot.com">>

\* format!("Bearer {}", api_key): the bytes of "Bearer " before the key.
BearerPrefix == <<66, 101, 97, 114, 101, 114, 32>>

\* HeaderValue::from_str: every byte visible ASCII or above, or a tab.
HeaderValueFromStr(s) ==
    IF \A i \in 1..Len(s) : (s[i] >= 32 /\ s[i] # 127) \/ s[i] = 9
    THEN Ok(s)
    ELSE Err("invalid header value")

\* str::trim_end_matches('/')
RECURSIVE trim_end_matches(_)
trim_end_matches(u) ==
    IF Len(u) > 0 /\ u[Len(u)] = "/"
    THEN trim_end_matches(SubSeq(u, 1, Len(u) - 1))
    ELSE u

Constructed(c) == [panicked |-> FALSE, client |-> c, message |-> ""]
Panicked(message) == [panicked |-> TRUE, client |-> <<>>, message |-> message]

\* Pxshot::with_base_url: both failures are .expect(), which panics.
\* tls_error: reqwest's ClientBuilder::build() returned Err (no TLS backend).
with_base_url(api_key, base_url, tls_error) ==
    LET auth_value == BearerPrefix \o api_key
        header == HeaderValueFromStr(auth_value)
    IN  IF ~header.ok THEN Panicked("invalid API key")
        ELSE IF tls_error THEN Panicked("failed to build HTTP client")
        ELSE Constructed([mode |-> "async",
                          authorization |-> header.val,
                          base_url |-> trim_end_matches(base_url)])

\* Pxshot::new
new(api_key, tls_error) == with_base_url(api_key, DEFAULT_BASE_URL, tls_error)

\* blocking::Pxshot::with_base_url
blocking_with_base_url(api_key, base_url, tls_error) ==
    LET auth_value == BearerPrefix \o api_key
        header == HeaderValueFromStr(auth_value)
    IN  IF ~header.ok THEN Panicked("invalid API key")
        ELSE IF tls_error THEN Panicked("failed to build HTTP client")
        ELSE Constructed([mode |-> "blocking",
                          authorization |-> header.val,
                          base_url |-> trim_end_matches(base_url)])

\* blocking::Pxshot::new
blocking_new(api_key, tls_error) ==
    blocking_with_base_url(api_key, DEFAULT_BASE_URL, tls_error)

(***************************************************************************)
(* client.rs: the asynchronous client's screenshot() and usage()           *)
(***************************************************************************)
\* The request screenshot() builds: POST {base_url}/v1/screenshot, JSON body.
screenshot_request(self, req) ==
    [method |-> "POST",
     url |-> self.base_url \o <<"/v1/screenshot">>,
     authorization |-> self.authorization,
     content_type |-> Some("application/json"),
     body |-> Some(Serialize(req))]

\* The request usage() builds: GET {base_url}/v1/usage, no body.
usage_request(self) ==
    [method |-> "GET",
     url |-> self.base_url \o <<"/v1/usage">>,
     authorization |-> self.authorization,
     content_type |-> None,
     body |-> None]

\* Faulty variant of send(): the request is sent a second time (a retry).
send_retry(w, r) == Append(Append(w, r), r)

\* .send(): the request is handed to the transport, once.
send(w, r) == Append(w, r)

\* Faulty variant of parse_error: the body is ignored, the reason phrase always used.
parse_error_phrase_only(status, resp) ==
    ApiFailure(status, UnwrapOr(canonical_reason(status), "Unknown error"))

\* Faulty variant of parse_error: the failure to decode the body is propagated.
parse_error_propagate(status, resp) ==
    LET decoded == ReadJsonApiError(resp)
    IN  IF decoded.ok
        THEN ApiFailure(status, decoded.val.error)
        ELSE ParseError(<<"failed to parse error response: ", decoded.err>>)

\* parse_error: the ApiError's message, or the status's reason phrase.
parse_error(status, resp) ==
    LET decoded == ReadJsonApiError(resp)
    IN  IF decoded.ok
        THEN ApiFailure(status, decoded.val.error)
        ELSE ApiFailure(status, UnwrapOr(canonical_reason(status), "Unknown error"))

\* Faulty variant of screenshot(): the variant is chosen by inspecting the body.
screenshot_response_sniff(store_, resp) ==
    IF ~is_success(resp.status) THEN Err(parse_error(resp.status, resp))
    ELSE LET decoded == ReadJsonStoredScreenshot(resp)
             read == ReadBytes(resp)
         IN  IF decoded.ok THEN Ok(Stored(decoded.val))
             ELSE IF read.ok THEN Ok(Bytes(read.val))
             ELSE Err(RequestError(read.err))

\* Faulty variant of screenshot(): a body that is no Stored descriptor is returned
\* as Bytes.
screenshot_response_fallback(store_, resp) ==
    IF ~is_success(resp.status) THEN Err(parse_error(resp.status, resp))
    ELSE LET decoded == ReadJsonStoredScreenshot(resp)
             read == ReadBytes(resp)
         IN  IF store_ /\ decoded.ok THEN Ok(Stored(decoded.val))
             ELSE IF read.ok THEN Ok(Bytes(read.val))
             ELSE Err(RequestError(read.err))

\* screenshot(), from the status check on (client.rs:136-150).
screenshot_response(store_, resp) ==
    IF ~is_success(resp.status) THEN Err(parse_error(resp.status, resp))
    ELSE IF store_
    THEN LET decoded == ReadJsonStoredScreenshot(resp)
         IN  IF decoded.ok
             THEN Ok(Stored(decoded.val))
             ELSE Err(ParseError(<<"failed to parse stored screenshot response: ",
                                   decoded.err>>))
    ELSE LET read == ReadBytes(resp)
         IN  IF read.ok THEN Ok(Bytes(read.val)) ELSE Err(RequestError(read.err))

\* usage(), from the status check on (client.rs:176-185).
usage_response(resp) ==
    IF ~is_success(resp.status) THEN Err(parse_error(resp.status, resp))
    ELSE LET decoded == ReadJsonUsage(resp)
         IN  IF decoded.ok
             THEN Ok(decoded.val)
             ELSE Err(ParseError(<<"failed to parse usage response: ", decoded.err>>))

(***************************************************************************)
(* client.rs: the blocking client's screenshot() and usage()               *)
(***************************************************************************)
blocking_screenshot_request(self, req) ==
    [method |-> "POST",
     url |-> self.base_url \o <<"/v1/screenshot">>,
     authorization |-> self.authorization,
     content_type |-> Some("application/json"),
     body |-> Some(Serialize(req))]

blocking_usage_request(self) ==
    [method |-> "GET",
     url |-> self.base_url \o <<"/v1/usage">>,
     authorization |-> self.authorization,
     content_type |-> None,
     body |-> None]

blocking_send(w, r) == Append(w, r)

\* Faulty variant of blocking::parse_error: the reason phrase is not looked up.
blocking_parse_error_no_phrase(status, resp) ==
    LET decoded == ReadJsonApiError(resp)
    IN  IF decoded.ok
        THEN ApiFailure(status, decoded.val.error)
        ELSE ApiFailure(status, "Unknown error")

\* blocking::Pxshot::parse_error
blocking_parse_error(status, resp) ==
    LET decoded == ReadJsonApiError(resp)
    IN  IF decoded.ok
        THEN ApiFailure(status, decoded.val.error)
        ELSE ApiFailure(status, UnwrapOr(canonical_reason(status), "Unknown error"))

blocking_screenshot_response(store_, resp) ==
    IF ~is_success(resp.status) THEN Err(blocking_parse_error(resp.status, resp))
    ELSE IF store_
    THEN LET decoded == ReadJsonStoredScreenshot(resp)
         IN  IF decoded.ok
             THEN Ok(Stored(decoded.val))
             ELSE Err(ParseError(<<"failed to parse stored screenshot response: ",
                                   decoded.err>>))
    ELSE LET read == ReadBytes(resp)
         IN  IF read.ok THEN Ok(Bytes(read.val)) ELSE Err(RequestError(read.err))

blocking_usage_response(resp) ==
    IF ~is_success(resp.status) THEN Err(blocking_parse_error(resp.status, resp))
    ELSE LET decoded == ReadJsonUsage(resp)
         IN  IF decoded.ok
             THEN Ok(decoded.val)
             ELSE Err(ParseError(<<"failed to parse usage response: ", decoded.err>>))

(***************************************************************************)
(* Inputs of the client specification                                      *)
(***************************************************************************)
\* API keys: "px", "p<tab>x" (a tab is a legal header byte), "p<newline>x".
ApiKeys == {<<112, 120>>, <<112, 9, 120>>, <<112, 10, 120>>}

BaseUrls == {<<"http://localhost:3000">>,
             <<"http://localhost:3000", "/">>,
             <<"http://localhost:3000", "/", "/">>}

\* Requests as build() returns them: url set, store and full_page set or not.
Requests ==
    LET b0 == {url(DefaultBuilder, "https://example.com")}
        b1 == b0 \cup {store(b, v) : b \in b0, v \in BOOLEAN}
        b2 == b1 \cup {full_page(b, FALSE) : b \in b1}
    IN  {build(b).val : b \in b2}

Statuses == {200, 204, 304, 404, 429, 500, 599}

StoredMembers ==
    {Member("url", JStr("https://cdn.pxshot.com/s/1.png")),
     Member("expires_at", JStr("2026-02-01T00:00:00Z")),
     Member("width", JNum(1920)),
     Member("height", JNum(1080)),
     Member("size_bytes", JNum(2048))}

UsageMembers ==
    {Member("screenshots", JNum(12)),
     Member("bytes", JNum(4096)),
     Member("period_start", JStr("2026-01-01T01:00:00+01:00")),
     Member("period_end", JStr("2026-02-01T00:00:00Z"))}

Bodies ==
    {RawBody(<<>>),                                    \* empty
     RawBody(<<137, 80, 78, 71>>),                     \* image bytes
     RawBody(<<123, 34, 117, 114, 108>>),              \* truncated JSON: {"url
     ScalarBody,                                       \* "x"
     ObjectBody({Member("error", JStr("quota exceeded"))}),
     ObjectBody({Member("error", JStr("bad url")), Member("code", JNum(7))}),
     ObjectBody({Member("error", JNum(5))}),
     ObjectBody({Member("message", JStr("quota exceeded"))}),
     ObjectBody({Member("error", JNull)}),
     ObjectBody(StoredMembers),
     ObjectBody(StoredMembers \cup {Member("error", JStr("stale"))}),
     ObjectBody(StoredMembers \ {Member("size_bytes", JNum(2048))}),
     ObjectBody((StoredMembers \ {Member("width", JNum(1920))})
                \cup {Member("width", JNum(-1))}),
     ObjectBody((StoredMembers \ {Member("expires_at", JStr("2026-02-01T00:00:00Z"))})
                \cup {Member("expires_at", JStr("tomorrow"))}),
     ObjectBody(UsageMembers),
     ObjectBody(UsageMembers \ {Member("bytes", JNum(4096))})}

(***************************************************************************)
(* Spec: the client's operations                                           *)
(***************************************************************************)
Construct(outcome) ==
    /\ IF outcome.panicked
       THEN panic' = Some(outcome.message) /\ client' = client
       ELSE client' = Some(outcome.client) /\ panic' = panic
    /\ UNCHANGED <<concVars, builderVars, callVars>>

Unconstructed == IsNone(client) /\ IsNone(panic)

New ==
    /\ Unconstructed
    /\ \E k \in ApiKeys, tls_error \in BOOLEAN : Construct(new(k, tls_error))

WithBaseUrl ==
    /\ Unconstructed
    /\ \E k \in ApiKeys, u \in BaseUrls, tls_error \in BOOLEAN :
          Construct(with_base_url(k, u, tls_error))

BlockingNew ==
    /\ Unconstructed
    /\ \E k \in ApiKeys, tls_error \in BOOLEAN : Construct(blocking_new(k, tls_error))

BlockingWithBaseUrl ==
    /\ Unconstructed
    /\ \E k \in ApiKeys, u \in BaseUrls, tls_error \in BOOLEAN :
          Construct(blocking_with_base_url(k, u, tls_error))

Ready(mode) ==
    /\ IsSome(client)
    /\ IsNone(panic)
    /\ Unwrap(client).mode = mode
    /\ pc = "idle"

\* screenshot() up to .send(): reads request.store, then sends (client.rs:125-134).
Screenshot ==
    /\ Ready("async")
    /\ \E req \in Requests :
          /\ request' = Some(req)
          /\ storeFlag' = UnwrapOr(req.store, FALSE)
          /\ wire' = send(wire, screenshot_request(Unwrap(client), req))
    /\ op' = "screenshot"
    /\ pc' = "sending"
    /\ UNCHANGED <<concVars, builderVars, clientVars, response, result>>

\* usage() up to .send() (client.rs:172-174).
Usage ==
    /\ Ready("async")
    /\ wire' = send(wire, usage_request(Unwrap(client)))
    /\ op' = "usage"
    /\ pc' = "sending"
    /\ UNCHANGED <<concVars, builderVars, clientVars, request, storeFlag, response, result>>

BlockingScreenshot ==
    /\ Ready("blocking")
    /\ \E req \in Requests :
          /\ request' = Some(req)
          /\ storeFlag' = UnwrapOr(req.store, FALSE)
          /\ wire' = blocking_send(wire, blocking_screenshot_request(Unwrap(client), req))
    /\ op' = "screenshot"
    /\ pc' = "sending"
    /\ UNCHANGED <<concVars, builderVars, clientVars, response, result>>

BlockingUsage ==
    /\ Ready("blocking")
    /\ wire' = blocking_send(wire, blocking_usage_request(Unwrap(client)))
    /\ op' = "usage"
    /\ pc' = "sending"
    /\ UNCHANGED <<concVars, builderVars, clientVars, request, storeFlag, response, result>>

\* .send() fails (`?` at client.rs:134, 174, 270, 293): Err(Error::Request).
SendFails ==
    /\ pc = "sending"
    /\ result' = Some(Err(RequestError("send")))
    /\ pc' = "done"
    /\ UNCHANGED <<concVars, builderVars, clientVars, op, request, storeFlag, wire, response>>

\* The transport delivers the server's status line and headers; the body
\* that follows is one of Bodies, or is cut off while it is read.
Respond ==
    /\ pc = "sending"
    /\ \E status \in Statuses, body \in Bodies, readOk \in BOOLEAN :
          response' = Some([status |-> status, body |-> body, readOk |-> readOk])
    /\ pc' = "responded"
    /\ UNCHANGED <<concVars, builderVars, clientVars, op, request, storeFlag, wire, result>>

Finish(r) ==
    /\ result' = Some(r)
    /\ pc' = "done"
    /\ UNCHANGED <<concVars, builderVars, clientVars, op, request, storeFlag, wire, response>>

Responded(mode, o) ==
    pc = "responded" /\ op = o /\ Unwrap(client).mode = mode

ScreenshotFinish ==
    /\ Responded("async", "screenshot")
    /\ Finish(screenshot_response(storeFlag, Unwrap(response)))

UsageFinish ==
    /\ Responded("async", "usage")
    /\ Finish(usage_response(Unwrap(response)))

BlockingScreenshotFinish ==
    /\ Responded("blocking", "screenshot")
    /\ Finish(blocking_screenshot_response(storeFlag, Unwrap(response)))

BlockingUsageFinish ==
    /\ Responded("blocking", "usage")
    /\ Finish(blocking_usage_response(Unwrap(response)))

\* The caller takes the result; the client is ready for the next call.
Return ==
    /\ pc = "done"
    /\ pc' = "idle"
    /\ op' = "none"
    /\ request' = None
    /\ storeFlag' = FALSE
    /\ wire' = <<>>
    /\ response' = None
    /\ result' = None
    /\ UNCHANGED <<concVars, builderVars, clientVars>>

(***************************************************************************)
(* SpecConcurrent: several calls in flight on one client.                  *)
(* screenshot() and usage() take &self; every value they work on (store,   *)
(* url, response, status) is a local of the call, held in calls[i].        *)
(***************************************************************************)
\* Bound: the number of calls in flight at once.
MaxConcurrent == 2
CallIds == 1..MaxConcurrent

IdleCall ==
    [pc |-> "idle", op |-> "none", request |-> None, storeFlag |-> FALSE,
     wire |-> <<>>, response |-> None, result |-> None]

\* Faulty variant of the store local: one slot shared by all the calls.
call_store_shared(cs, i) == cs[1].storeFlag

\* `let store = request.store.unwrap_or(false)`: the local of call i.
call_store(cs, i) == cs[i].storeFlag

\* A call up to .send(), for the client `self` (either mode).
call_screenshot(self, req) ==
    [pc |-> "sending",
     op |-> "screenshot",
     request |-> Some(req),
     storeFlag |-> UnwrapOr(req.store, FALSE),
     wire |-> IF self.mode = "async"
              THEN send(<<>>, screenshot_request(self, req))
              ELSE blocking_send(<<>>, blocking_screenshot_request(self, req)),
     response |-> None,
     result |-> None]

call_usage(self) ==
    [pc |-> "sending",
     op |-> "usage",
     request |-> None,
     storeFlag |-> FALSE,
     wire |-> IF self.mode = "async"
              THEN send(<<>>, usage_request(self))
              ELSE blocking_send(<<>>, blocking_usage_request(self)),
     response |-> None,
     result |-> None]

\* A call from the status check on: what call i returns.
call_response(self, cs, i) ==
    LET resp == Unwrap(cs[i].response)
    IN  IF self.mode = "async"
        THEN IF cs[i].op = "screenshot"
             THEN screenshot_response(call_store(cs, i), resp)
             ELSE usage_response(resp)
        ELSE IF cs[i].op = "screenshot"
             THEN blocking_screenshot_response(call_store(cs, i), resp)
             ELSE blocking_usage_response(resp)

\* Inputs of the concurrent specification.
ConcurrentClients ==
    {Some(new(<<112, 120>>, FALSE).client),
     Some(blocking_with_base_url(<<112, 120>>,
                                 <<"http://localhost:3000", "/">>, FALSE).client)}

ConcurrentRequests ==
    {build(b).val :
        b \in {url(DefaultBuilder, "https://example.com"),
               store(url(DefaultBuilder, "https://example.org"), TRUE)}}

ConcurrentResponses ==
    [status : {200, 429},
     body : {ObjectBody(StoredMembers),
             ObjectBody({Member("error", JStr("quota exceeded"))})},
     readOk : BOOLEAN]

Step(i, c) ==
    /\ calls' = [calls EXCEPT ![i] = c]
    /\ UNCHANGED <<builderVars, clientVars, callVars>>

ConcurrentScreenshot ==
    \E i \in CallIds, req \in ConcurrentRequests :
        /\ calls[i].pc = "idle"
        /\ Step(i, call_screenshot(Unwrap(client), req))

ConcurrentUsage ==
    \E i \in CallIds :
        /\ calls[i].pc = "idle"
        /\ Step(i, call_usage(Unwrap(client)))

ConcurrentSendFails ==
    \E i \in CallIds :
        /\ calls[i].pc = "sending"
        /\ Step(i, [calls[i] EXCEPT !.pc = "done",
                                    !.result = Some(Err(RequestError("send")))])

ConcurrentRespond ==
    \E i \in CallIds, resp \in ConcurrentResponses :
        /\ calls[i].pc = "sending"
        /\ Step(i, [calls[i] EXCEPT !.pc = "responded", !.response = Some(resp)])

ConcurrentFinish ==
    \E i \in CallIds :
        /\ calls[i].pc = "responded"
        /\ Step(i, [calls[i] EXCEPT
                       !.pc = "done",
                       !.result = Some(call_response(Unwrap(client), calls, i))])

ConcurrentReturn ==
    \E i \in CallIds :
        /\ calls[i].pc = "done"
        /\ Step(i, IdleCall)

(***************************************************************************)
(* SpecBuilder: the builder's operations                                   *)
(***************************************************************************)
Staging == IsNone(built) /\ ncalls < MaxSetterCalls

Call(name, v, b) ==
    /\ builder' = b
    /\ called' = called \cup {name}
    /\ ncalls' = ncalls + 1
    /\ history' = Append(history, <<name, v>>)
    /\ UNCHANGED <<concVars, built, clientVars, callVars>>

SetUrl == Staging /\ \E v \in UrlValues : Call("url", v, url(builder, v))
SetFormat == Staging /\ \E v \in ImageFormat : Call("format", v, format(builder, v))
SetQuality == Staging /\ \E v \in QualityValues : Call("quality", v, quality(builder, v))
SetWidth == Staging /\ \E v \in PixelValues : Call("width", v, width(builder, v))
SetHeight == Staging /\ \E v \in PixelValues : Call("height", v, height(builder, v))
SetFullPage == Staging /\ \E v \in BOOLEAN : Call("full_page", v, full_page(builder, v))
SetWaitUntil == Staging /\ \E v \in WaitUntil : Call("wait_until", v, wait_until(builder, v))
SetWaitForSelector ==
    Staging /\ \E v \in SelectorValues :
        Call("wait_for_selector", v, wait_for_selector(builder, v))
SetWaitForTimeout ==
    Staging /\ \E v \in TimeoutValues :
        Call("wait_for_timeout", v, wait_for_timeout(builder, v))
SetDeviceScaleFactor ==
    Staging /\ \E v \in ScaleValues :
        Call("device_scale_factor", v, device_scale_factor(builder, v))
SetStore == Staging /\ \E v \in BOOLEAN : Call("store", v, store(builder, v))
SetBlockAds == Staging /\ \E v \in BOOLEAN : Call("block_ads", v, block_ads(builder, v))

\* build(self) consumes the builder: no setter can follow it.
Build ==
    /\ IsNone(built)
    /\ built' = Some(build(builder))
    /\ UNCHANGED <<concVars, builder, called, ncalls, history, clientVars, callVars>>

Init ==
    /\ builder = DefaultBuilder
    /\ called = {}
    /\ ncalls = 0
    /\ history = <<>>
    /\ built = None
    /\ client = None
    /\ panic = None
    /\ pc = "idle"
    /\ op = "none"
    /\ request = None
    /\ storeFlag = FALSE
    /\ wire = <<>>
    /\ response = None
    /\ result = None
    /\ calls = [i \in CallIds |-> IdleCall]

NextBuilder ==
    \/ SetUrl
    \/ SetFormat
    \/ SetQuality
    \/ SetWidth
    \/ SetHeight
    \/ SetFullPage
    \/ SetWaitUntil
    \/ SetWaitForSelector
    \/ SetWaitForTimeout
    \/ SetDeviceScaleFactor
    \/ SetStore
    \/ SetBlockAds
    \/ Build

SpecBuilder == Init /\ [][NextBuilder]_vars

Next ==
    \/ New
    \/ WithBaseUrl
    \/ BlockingNew
    \/ BlockingWithBaseUrl
    \/ Screenshot
    \/ Usage
    \/ BlockingScreenshot
    \/ BlockingUsage
    \/ SendFails
    \/ Respond
    \/ ScreenshotFinish
    \/ UsageFinish
    \/ BlockingScreenshotFinish
    \/ BlockingUsageFinish
    \/ Return

Spec == Init /\ [][Next]_vars

\* The client has been constructed; no call has started.
InitConcurrent ==
    /\ builder = DefaultBuilder
    /\ called = {}
    /\ ncalls = 0
    /\ history = <<>>
    /\ built = None
    /\ client \in ConcurrentClients
    /\ panic = None
    /\ pc = "idle"
    /\ op = "none"
    /\ request = None
    /\ storeFlag = FALSE
    /\ wire = <<>>
    /\ response = None
    /\ result = None
    /\ calls = [i \in CallIds |-> IdleCall]

NextConcurrent ==
    \/ ConcurrentScreenshot
    \/ ConcurrentUsage
    \/ ConcurrentSendFails
    \/ ConcurrentRespond
    \/ ConcurrentFinish
    \/ ConcurrentReturn

SpecConcurrent == InitConcurrent /\ [][NextConcurrent]_vars

(***************************************************************************)
(* Properties                                                              *)
(***************************************************************************)
Done == pc = "done" /\ IsSome(result)
Resp == Unwrap(response)
Res == Unwrap(result)
Failed(kind) == Done /\ ~Res.ok /\ Res.err.kind = kind

\* The response arrived whole: status line and a completely read body.
Received == Done /\ IsSome(response) /\ Resp.readOk
NonSuccess == Resp.status < 200 \/ Resp.status > 299

\* The body is a JSON object whose member `error` is a string.
IsApiErrorBody(body) ==
    body.syntax = "object" /\ \E m \in body.members : m.k = "error" /\ m.t = "str"

\* C1: when build() is called after setters that never included url(...), it
\* returns Err(MissingField("url")) and no request, whatever else was set;
\* when url(...) was called at least once, it returns a request.
C1_BuildRequiresUrl ==
    IsSome(built) =>
        IF "url" \in called
        THEN Unwrap(built).ok
        ELSE ~Unwrap(built).ok /\ Unwrap(built).err = MissingField("url")

\* C1 witness: build() has failed although two other fields had been set.
C1_Witness ==
    /\ IsSome(built)
    /\ ~Unwrap(built).ok
    /\ Unwrap(built).err.kind = "MissingField"
    /\ "url" \notin called
    /\ {"store", "quality"} \subseteq called

\* C2: the payload of a built request has the key of an optional field if and
\* only if that field's setter was called; it always has url; no member is
\* null; a boolean field set to false is present with the value false; and a
\* request built from url alone serializes to the single key url.
C2_OptionalOmission ==
    (IsSome(built) /\ Unwrap(built).ok) =>
        LET payload == Serialize(Unwrap(built).val)
        IN  /\ \A f \in OptionalFields : (f \in Keys(payload)) <=> (f \in called)
            /\ "url" \in Keys(payload)
            /\ Cardinality(payload) = Cardinality(Keys(payload))
            /\ \A m \in payload : m.t # "null"
            /\ \A f \in {"full_page", "store", "block_ads"} :
                  f \in called =>
                      \E m \in payload :
                          m.k = f /\ m.t = "bool" /\ m.b = Unwrap(builder[f])
            /\ called = {"url"} => Keys(payload) = {"url"}

\* C2 witness: a built request with store set to false, whose payload holds
\* exactly url and store, store being false.
C2_Witness ==
    /\ IsSome(built)
    /\ Unwrap(built).ok
    /\ called = {"url", "store"}
    /\ builder.store = Some(FALSE)
    /\ Keys(Serialize(Unwrap(built).val)) = {"url", "store"}
    /\ \E m \in Serialize(Unwrap(built).val) : m.k = "store" /\ m.t = "bool" /\ ~m.b

\* C3: the local store flag is the request's (absent = false) from the moment
\* the request is sent, and a successful screenshot() returns Stored if the
\* request's store is true and Bytes otherwise, whatever the response holds.
C3_VariantFromStoreFlag ==
    /\ (pc # "idle" /\ op = "screenshot") =>
           storeFlag = (Unwrap(request).store = Some(TRUE))
    /\ (Done /\ op = "screenshot" /\ Res.ok) =>
           Res.val.variant =
               IF Unwrap(request).store = Some(TRUE) THEN "Stored" ELSE "Bytes"

\* C3 witness: a request without store answered by 200 and a well-formed
\* Stored descriptor has returned Bytes.
C3_Witness ==
    /\ Received
    /\ op = "screenshot"
    /\ Unwrap(request).store = None
    /\ Resp.status = 200
    /\ Resp.body = ObjectBody(StoredMembers)
    /\ Res.ok
    /\ Res.val.variant = "Bytes"

\* C4: on every response screenshot() returns, exactly one of bytes() and
\* stored() is present and exactly one of into_bytes() and into_stored(): for
\* Bytes the byte accessors give the data and the stored accessors nothing,
\* for Stored the reverse.
C4_AccessorsExclusive ==
    (Done /\ op = "screenshot" /\ Res.ok) =>
        LET r == Res.val
        IN  /\ r.variant \in {"Bytes", "Stored"}
            /\ IsSome(bytes(r)) # IsSome(stored(r))
            /\ IsSome(into_bytes(r)) # IsSome(into_stored(r))
            /\ r.variant = "Bytes" =>
                  /\ bytes(r) = Some(r.data)
                  /\ into_bytes(r) = Some(r.data)
                  /\ stored(r) = None
                  /\ into_stored(r) = None
            /\ r.variant = "Stored" =>
                  /\ stored(r) = Some(r.data)
                  /\ into_stored(r) = Some(r.data)
                  /\ bytes(r) = None
                  /\ into_bytes(r) = None

\* C4 witness: a Bytes response whose stored() is absent and whose bytes()
\* is the body received.
C4_Witness ==
    /\ Done
    /\ op = "screenshot"
    /\ Res.ok
    /\ Res.val.variant = "Bytes"
    /\ stored(Res.val) = None
    /\ bytes(Res.val) = Some(Resp.body)

\* C5: a non-2xx response whose body is an object with a string `error` makes
\* screenshot() and usage() fail with Api{status, message}, the status being
\* the response's and the message the body's, whatever the store flag.
C5_ApiErrorFromBody ==
    (Received /\ NonSuccess /\ IsApiErrorBody(Resp.body)) =>
        /\ ~Res.ok
        /\ Res.err.kind = "Api"
        /\ Res.err.status = Resp.status
        /\ \E m \in Resp.body.members :
              m.k = "error" /\ m.t = "str" /\ Res.err.message = m.s

\* C5 witness: a store=true screenshot() answered by 429 and
\* {"error": "quota exceeded"} has failed with Api{429, "quota exceeded"}.
C5_Witness ==
    /\ Received
    /\ op = "screenshot"
    /\ storeFlag
    /\ Resp.status = 429
    /\ Res = Err(ApiFailure(429, "quota exceeded"))

\* The reason phrase of a status, "Unknown error" for a status without one.
StandardPhrase(status) ==
    CASE status = 204 -> "No Content"
      [] status = 304 -> "Not Modified"
      [] status = 404 -> "Not Found"
      [] status = 429 -> "Too Many Requests"
      [] status = 500 -> "Internal Server Error"
      [] OTHER -> "Unknown error"

\* C6: a non-2xx response whose body is no ApiError (empty, not JSON, or
\* without a string `error`) makes screenshot() and usage() fail with
\* Api{status, reason phrase}, "Unknown error" standing for a missing phrase.
C6_ApiErrorFallback ==
    (Received /\ NonSuccess /\ ~IsApiErrorBody(Resp.body)) =>
        Res = Err(ApiFailure(Resp.status, StandardPhrase(Resp.status)))

\* C6 witness: usage() answered by 599 and an empty body has failed with
\* Api{599, "Unknown error"}.
C6_Witness ==
    /\ Received
    /\ op = "usage"
    /\ Resp.status = 599
    /\ Resp.body = RawBody(<<>>)
    /\ Res = Err(ApiFailure(599, "Unknown error"))

\* C7: a 2xx response whose body does not decode into the expected shape (the
\* Stored descriptor for a store=true screenshot(), Usage for usage()) makes
\* the call fail with Parse: no success value of any kind is returned.
C7_ParseFailure ==
    (/\ Received
     /\ ~NonSuccess
     /\ \/ /\ op = "screenshot"
           /\ Unwrap(request).store = Some(TRUE)
           /\ ~DecodeStoredScreenshot(Resp.body).ok
        \/ /\ op = "usage"
           /\ ~DecodeUsage(Resp.body).ok) =>
        ~Res.ok /\ Res.err.kind = "Parse"

\* C7 witness: a store=true screenshot() answered by 200 and a descriptor
\* without size_bytes has failed with Parse.
C7_Witness ==
    /\ Received
    /\ op = "screenshot"
    /\ Unwrap(request).store = Some(TRUE)
    /\ Resp.status = 200
    /\ Resp.body.syntax = "object"
    /\ Keys(Resp.body.members) = {"url", "expires_at", "width", "height"}
    /\ Failed("Parse")

\* C8: a call in flight or returned has sent exactly one HTTP request, its
\* own, and nothing is on the wire outside a call.
C8_OneRequestPerCall ==
    /\ pc = "idle" => wire = <<>>
    /\ pc # "idle" =>
          /\ Len(wire) = 1
          /\ wire[1].method = (IF op = "screenshot" THEN "POST" ELSE "GET")
    /\ IsSome(result) => Len(wire) = 1

\* C8 witness: a call has returned a Parse error with one request sent.
C8_Witness == Failed("Parse") /\ Len(wire) = 1

\* C9: whenever the transport fails, while sending or while the body is
\* read, the call fails with the Request error.
C9_TransportFailureIsRequest ==
    (Done /\ (IsNone(response) \/ ~Resp.readOk)) => Failed("Request")

\* C10: no operation terminates abnormally, and every error returned is one
\* of MissingField, Request, Api, Parse, Config.
C10_FailuresAreTypedErrors ==
    /\ IsNone(panic)
    /\ (Done /\ ~Res.ok) => Res.err.kind \in ErrorKinds

\* C11: every request build() returns has a non-empty url.
C11_UrlNonEmpty ==
    (IsSome(built) /\ Unwrap(built).ok) => Unwrap(built).val.url # ""

\* What a call returns when it runs alone on client `self`: a function of its
\* own operation, request and exchange (None: send() failed).
C12_Alone(self, o, req, exchange) ==
    IF IsNone(exchange) THEN Err(RequestError("send"))
    ELSE IF o = "usage"
    THEN IF self.mode = "async"
         THEN usage_response(Unwrap(exchange))
         ELSE blocking_usage_response(Unwrap(exchange))
    ELSE IF self.mode = "async"
         THEN screenshot_response(UnwrapOr(Unwrap(req).store, FALSE), Unwrap(exchange))
         ELSE blocking_screenshot_response(UnwrapOr(Unwrap(req).store, FALSE),
                                           Unwrap(exchange))

\* The request a call sends when it runs alone on client `self`.
C12_AloneRequest(self, o, req) ==
    IF o = "usage"
    THEN [method |-> "GET", url |-> self.base_url \o <<"/v1/usage">>,
          authorization |-> self.authorization,
          content_type |-> None, body |-> None]
    ELSE [method |-> "POST", url |-> self.base_url \o <<"/v1/screenshot">>,
          authorization |-> self.authorization,
          content_type |-> Some("application/json"),
          body |-> Some(Serialize(Unwrap(req)))]

\* C12: with calls interleaved on one client, no step changes the client
\* (base URL, credential), every call sends the request it would send alone,
\* and every call returns what it would return alone on its own request and
\* its own exchange.
C12_CallsIndependent ==
    /\ [][client' = client]_vars
    /\ [](\A i \in CallIds :
            /\ calls[i].pc # "idle" =>
                  calls[i].wire =
                      <<C12_AloneRequest(Unwrap(client), calls[i].op, calls[i].request)>>
            /\ calls[i].pc = "done" =>
                  calls[i].result =
                      Some(C12_Alone(Unwrap(client), calls[i].op, calls[i].request,
                                     calls[i].response)))

\* C12 witness: two screenshot() calls have overlapped, received the same
\* 200 response (a Stored descriptor), and returned Bytes for the request
\* without store and Stored for the request with store = true.
C12_Witness ==
    /\ calls[1].pc = "done"
    /\ calls[2].pc = "done"
    /\ calls[1].op = "screenshot"
    /\ calls[2].op = "screenshot"
    /\ Unwrap(calls[1].request).store = Some(TRUE)
    /\ Unwrap(calls[2].request).store = None
    /\ IsSome(calls[1].response)
    /\ calls[1].response = calls[2].response
    /\ Unwrap(calls[1].response).status = 200
    /\ Unwrap(calls[1].response).readOk
    /\ Unwrap(calls[1].response).body = ObjectBody(StoredMembers)
    /\ Unwrap(calls[1].result).ok
    /\ Unwrap(calls[2].result).ok
    /\ Unwrap(calls[1].result).val.variant = "Stored"
    /\ Unwrap(calls[2].result).val.variant = "Bytes"

\* C13: for the same client settings, request and transport outcome, the
\* asynchronous and the blocking client send the same request (method, URL,
\* headers, payload) and return the same result: the same success value, or
\* the same error kind with the same status and message. Both constructors
\* also agree on the client they build or the panic they raise.
C13_ClientsEquivalent ==
    /\ \A k \in ApiKeys, u \in BaseUrls, e \in BOOLEAN :
          LET a == with_base_url(k, u, e)
              b == blocking_with_base_url(k, u, e)
          IN  /\ a.panicked = b.panicked
              /\ a.message = b.message
              /\ ~a.panicked =>
                    /\ a.client.base_url = b.client.base_url
                    /\ a.client.authorization = b.client.authorization
    /\ (pc # "idle" /\ op = "screenshot") =>
          /\ wire = send(<<>>, screenshot_request(Unwrap(client), Unwrap(request)))
          /\ wire = blocking_send(<<>>, blocking_screenshot_request(Unwrap(client),
                                                                    Unwrap(request)))
    /\ (pc # "idle" /\ op = "usage") =>
          /\ wire = send(<<>>, usage_request(Unwrap(client)))
          /\ wire = blocking_send(<<>>, blocking_usage_request(Unwrap(client)))
    /\ (Done /\ IsSome(response) /\ op = "screenshot") =>
          /\ Res = screenshot_response(storeFlag, Resp)
          /\ Res = blocking_screenshot_response(storeFlag, Resp)
    /\ (Done /\ IsSome(response) /\ op = "usage") =>
          /\ Res = usage_response(Resp)
          /\ Res = blocking_usage_response(Resp)
    /\ (Done /\ IsNone(response)) => Failed("Request")

\* C13 witness: the blocking client's usage() has failed on a 500 with an
\* empty body with the Api error the asynchronous usage() computes from the
\* same response.
C13_Witness ==
    /\ Received
    /\ Unwrap(client).mode = "blocking"
    /\ op = "usage"
    /\ Resp.status = 500
    /\ Resp.body = RawBody(<<>>)
    /\ Res = Err(ApiFailure(500, "Internal Server Error"))
    /\ Res = usage_response(Resp)

\* The value last given to setter f in the calls h, None if f was never called.
C14_Last(h, f) ==
    LET at == {i \in 1..Len(h) : h[i][1] = f}
    IN  IF at = {} THEN None
        ELSE Some(h[CHOOSE i \in at : \A j \in at : j <= i][2])

\* C14: after any sequence of setter calls every builder field holds the
\* value last given to its own setter (None if that setter was never called),
\* so a setter changes no field but its own and a repeated call replaces the
\* earlier value; and build() copies every field unchanged, so the request
\* is determined by the last value of each field, whatever the order of calls.
C14_SettersFrame ==
    /\ \A f \in AllFields : builder[f] = C14_Last(history, f)
    /\ (IsSome(built) /\ Unwrap(built).ok) =>
          /\ Some(Unwrap(built).val.url) = C14_Last(history, "url")
          /\ \A f \in OptionalFields : Unwrap(built).val[f] = C14_Last(history, f)

\* C14 witness: quality(80), url(..), quality(90) then build(): the request
\* holds quality 90 and the url, and nothing else.
C14_Witness ==
    /\ IsSome(built)
    /\ Unwrap(built).ok
    /\ Len(history) = 3
    /\ history[1][1] = "quality"
    /\ history[2][1] = "url"
    /\ history[3][1] = "quality"
    /\ history[1][2] = 80
    /\ history[3][2] = 90
    /\ Unwrap(built).val.quality = Some(90)
    /\ Unwrap(built).val.url = history[2][2]
    /\ \A f \in OptionalFields \ {"quality"} : Unwrap(built).val[f] = None

====
